---- MODULE Spec2Model ----
(***************************************************************************)
(* Model of three pieces of realm-cli:                                     *)
(*   - CommandDiff.Handler      (internal/commands/app, `app diff`)        *)
(*   - CommandDelete.Handler    (internal/commands/secrets, `secrets       *)
(*                               delete`)                                  *)
(*   - commandFactory.Build/Run (internal/cli, the cobra wiring)           *)
(* Each command is a sequential program; every statement that calls a      *)
(* collaborator is one step, the collaborator's answer is chosen           *)
(* nondeterministically.                                                   *)
(***************************************************************************)
EXTENDS Integers, Sequences, FiniteSets

VARIABLES
    \* ---- app diff ----
    pc,            \* position of CommandDiff.Handler
    inputs,        \* diffInputs: IncludeDependencies, IncludeHosting
    rootDir,       \* app.RootDir as loaded ("" when no app directory found)
    diffs,         \* the local variable diffs
    calls,         \* log of collaborator calls: <<name, outcome>>
    printed,       \* log of ui.Print calls
    ret,           \* what Handler returned (Running while it runs)
    uploadPath,    \* uploadPath, NoPath until PrepareDependencies succeeded
    deferred,      \* stack of deferred os.Remove arguments
    fs,            \* paths of prepared dependency archives existing on disk
    removed,       \* log of os.Remove calls (the path given)
    facets,        \* what each facet returned: [config, deps, hosting]
    hosting,       \* local hosting files found by local.FindAppHosting
    appAssets,     \* remote manifest: file -> 0 absent, 1 same digest, 2 other
    cacheOK,       \* whether the hosting asset cache store is usable
    cache,         \* files with a valid cache entry
    rehashed,      \* files hashed by hosting.Diffs
    \* ---- secrets delete ----
    dpc,           \* position of CommandDelete.Handler
    selected,      \* the secrets resolveSecrets returned
    outputs,       \* secretOutputs: <<[secret, err]>>
    di,            \* the loop index i
    deleteCalls,   \* log of DeleteSecret calls (secret ids)
    dprinted,      \* log of ui.Print calls
    dret,          \* what Handler returned
    \* ---- command factory ----
    cpc,           \* position of Build / cobra's Execute / Run
    command,       \* which optional interfaces the command implements
    cmd,           \* the cobra.Command built: which hooks are set
    phases,        \* log of phases run: <<phase, succeeded>>
    events,        \* telemetry events tracked
    execErr,       \* what cmd.Execute() returned
    factory,       \* commandFactory: ui set?, telemetry modes and service
    out            \* what Run did with the error

diffVars == <<pc, inputs, rootDir, diffs, calls, printed, ret, uploadPath,
              deferred, fs, removed, facets, hosting, appAssets, cacheOK,
              cache, rehashed>>
deleteVars == <<dpc, selected, outputs, di, deleteCalls, dprinted, dret>>
cliVars == <<cpc, command, cmd, phases, events, execErr, factory, out>>
vars == <<diffVars, deleteVars, cliVars>>

\* ------------------------------------------------------------------ bounds
MaxDiffLen == 2
NumFiles == 2
MaxSecrets == 3

\* ------------------------------------------------------------- common
Nil == <<"nil">>
Running == <<"running">>
Err(what) == <<"error", what>>
IsErr(e) == Len(e) = 2 /\ e[1] = "error"

RECURSIVE SeqsUpTo(_, _)
SeqsUpTo(S, n) ==
    IF n = 0 THEN {<<>>}
    ELSE LET shorter == SeqsUpTo(S, n - 1)
         IN shorter \cup {Append(s, x) : s \in shorter, x \in S}

Range(s) == {s[i] : i \in 1..Len(s)}

\* ---------------------------------------------------------------- app diff
Files == 1..NumFiles
NoPath == "none"
ArchivePath == "node_modules.zip"

\* lines a diff can hold; hosting lines for file 1 are among them, so the
\* same line can come from two facets
Lines == {<<"added", 1>>, <<"removed", 1>>}
DiffResults == SeqsUpTo(Lines, MaxDiffLen)

DiffIdle ==
    /\ pc = "idle" /\ inputs = [IncludeDependencies |-> FALSE, IncludeHosting |-> FALSE]
    /\ rootDir = "" /\ diffs = <<>> /\ calls = <<>> /\ printed = <<>>
    /\ ret = Running /\ uploadPath = NoPath /\ deferred = <<>> /\ fs = {}
    /\ removed = <<>> /\ facets = [config |-> <<>>, deps |-> <<>>, hosting |-> <<>>]
    /\ hosting = {} /\ appAssets = [f \in Files |-> 0] /\ cacheOK = TRUE
    /\ cache = {} /\ rehashed = {}

DiffInit ==
    /\ pc = "LoadApp"
    /\ inputs \in [IncludeDependencies : BOOLEAN, IncludeHosting : BOOLEAN]
    /\ rootDir = "" /\ diffs = <<>> /\ calls = <<>> /\ printed = <<>>
    /\ ret = Running /\ uploadPath = NoPath /\ deferred = <<>> /\ fs = {}
    /\ removed = <<>> /\ facets = [config |-> <<>>, deps |-> <<>>, hosting |-> <<>>]
    /\ hosting = {} /\ appAssets = [f \in Files |-> 0]
    /\ cacheOK \in BOOLEAN
    /\ cache \in SUBSET Files
    /\ rehashed = {}


\* a collaborator call and its outcome ("ok" or the class of its error)
Call(name, outcome) == calls' = Append(calls, <<name, outcome>>)

\* a return that drops the deferred calls
ReturnNoDefer(e) ==
    /\ ret' = e
    /\ pc' = "done"
    /\ UNCHANGED <<fs, removed, deferred>>

\* a return statement: the deferred calls run (os.Remove of each deferred
\* path, its error ignored), then the caller sees the value
Return(e) ==
    /\ ret' = e
    /\ pc' = "done"
    /\ fs' = fs \ Range(deferred)
    /\ removed' = removed \o deferred
    /\ deferred' = <<>>

Continue(next) ==
    /\ pc' = next
    /\ UNCHANGED <<ret, fs, removed, deferred>>

\* the dependency facet run whatever the flag says
DependenciesAlways == TRUE

\* the two flags that select the optional facets
DependenciesRequested == inputs.IncludeDependencies
HostingRequested == inputs.IncludeHosting

\* where the handler goes after the configuration / dependency facet
AfterConfig ==
    IF DependenciesRequested THEN "PrepareDependencies"
    ELSE IF HostingRequested THEN "FindAppHosting" ELSE "Print"
AfterDependencies == IF HostingRequested THEN "FindAppHosting" ELSE "Print"

\* the new entries put in front of the old ones
PrependDiffs(d, more) == more \o d

\* diffs = append(diffs, more...)
AppendDiffs(d, more) == d \o more

\* app, err := local.LoadApp(cmd.inputs.LocalPath)
LoadApp ==
    /\ pc = "LoadApp"
    /\ \/ /\ Call("local.LoadApp", "IOError")
          /\ Return(Err("local.LoadApp"))
          /\ UNCHANGED rootDir
       \/ \E dir \in {"", "dir"} :
            /\ Call("local.LoadApp", "ok")
            /\ rootDir' = dir
            /\ Continue("CheckRootDir")
    /\ UNCHANGED <<inputs, diffs, printed, uploadPath, facets, hosting,
                   appAssets, cacheOK, cache, rehashed>>
    /\ UNCHANGED <<deleteVars, cliVars>>

\* if app.RootDir == "" { return fmt.Errorf("no app directory found ...") }
CheckRootDir ==
    /\ pc = "CheckRootDir"
    /\ IF rootDir = "" THEN Return(Err("no app directory found"))
       ELSE Continue("ResolveApp")
    /\ UNCHANGED <<inputs, rootDir, diffs, calls, printed, uploadPath, facets,
                   hosting, appAssets, cacheOK, cache, rehashed>>
    /\ UNCHANGED <<deleteVars, cliVars>>

\* appToDiff, err := cli.ResolveApp(ui, clients.Realm, ...)
ResolveApp ==
    /\ pc = "ResolveApp"
    /\ \/ /\ Call("cli.ResolveApp", "ServiceError")
          /\ Return(Err("cli.ResolveApp"))
       \/ /\ Call("cli.ResolveApp", "ok")
          /\ Continue("Diff")
    /\ UNCHANGED <<inputs, rootDir, diffs, printed, uploadPath, facets,
                   hosting, appAssets, cacheOK, cache, rehashed>>
    /\ UNCHANGED <<deleteVars, cliVars>>

\* diffs, err := clients.Realm.Diff(appToDiff.GroupID, appToDiff.ID, app.AppData)
Diff ==
    /\ pc = "Diff"
    /\ \/ /\ Call("Realm.Diff", "ServiceError")
          /\ Return(Err("Realm.Diff"))
          /\ UNCHANGED <<diffs, facets>>
       \/ \E d \in DiffResults :
            /\ Call("Realm.Diff", "ok")
            /\ diffs' = d
            /\ facets' = [facets EXCEPT !.config = d]
            /\ Continue(AfterConfig)
    /\ UNCHANGED <<inputs, rootDir, printed, uploadPath, hosting, appAssets,
                   cacheOK, cache, rehashed>>
    /\ UNCHANGED <<deleteVars, cliVars>>

\* uploadPath, err := local.PrepareDependencies(app, ui); defer os.Remove(uploadPath)
PrepareDependencies ==
    /\ pc = "PrepareDependencies"
    /\ \/ /\ Call("local.PrepareDependencies", "BuildError")
          /\ Return(Err("local.PrepareDependencies"))
          /\ UNCHANGED uploadPath
       \/ /\ Call("local.PrepareDependencies", "ok")
          /\ uploadPath' = ArchivePath
          /\ fs' = fs \cup {ArchivePath}
          /\ deferred' = <<ArchivePath>> \o deferred
          /\ pc' = "DiffDependencies"
          /\ UNCHANGED <<ret, removed>>
    /\ UNCHANGED <<inputs, rootDir, diffs, printed, facets, hosting, appAssets,
                   cacheOK, cache, rehashed>>
    /\ UNCHANGED <<deleteVars, cliVars>>

\* the dependency diff with its error dropped: the handler goes on with what
\* it has
DiffDependenciesIgnoringError ==
    /\ pc = "DiffDependencies"
    /\ \/ /\ Call("Realm.DiffDependencies", "ServiceError")
          /\ UNCHANGED <<diffs, facets>>
          /\ Continue(AfterDependencies)
       \/ \E d \in DiffResults :
            /\ Call("Realm.DiffDependencies", "ok")
            /\ diffs' = diffs \o d
            /\ facets' = [facets EXCEPT !.deps = d]
            /\ Continue(AfterDependencies)
    /\ UNCHANGED <<inputs, rootDir, printed, uploadPath, hosting, appAssets,
                   cacheOK, cache, rehashed>>
    /\ UNCHANGED <<deleteVars, cliVars>>

\* dependenciesDiff, err := clients.Realm.DiffDependencies(...);
\* diffs = append(diffs, dependenciesDiff.Strings()...)
DiffDependencies ==
    /\ pc = "DiffDependencies"
    /\ \/ /\ Call("Realm.DiffDependencies", "ServiceError")
          /\ Return(Err("Realm.DiffDependencies"))
          /\ UNCHANGED <<diffs, facets>>
       \/ \E d \in DiffResults :
            /\ Call("Realm.DiffDependencies", "ok")
            /\ diffs' = AppendDiffs(diffs, d)
            /\ facets' = [facets EXCEPT !.deps = d]
            /\ Continue(AfterDependencies)
    /\ UNCHANGED <<inputs, rootDir, printed, uploadPath, hosting, appAssets,
                   cacheOK, cache, rehashed>>
    /\ UNCHANGED <<deleteVars, cliVars>>

\* hosting, err := local.FindAppHosting(app.RootDir)
FindAppHosting ==
    /\ pc = "FindAppHosting"
    /\ \/ /\ Call("local.FindAppHosting", "IOError")
          /\ Return(Err("local.FindAppHosting"))
          /\ UNCHANGED hosting
       \/ \E local \in SUBSET Files :
            /\ Call("local.FindAppHosting", "ok")
            /\ hosting' = local
            /\ Continue("HostingAssets")
    /\ UNCHANGED <<inputs, rootDir, diffs, printed, uploadPath, facets,
                   appAssets, cacheOK, cache, rehashed>>
    /\ UNCHANGED <<deleteVars, cliVars>>

\* appAssets, err := clients.Realm.HostingAssets(appToDiff.GroupID, appToDiff.ID)
HostingAssets ==
    /\ pc = "HostingAssets"
    /\ \/ /\ Call("Realm.HostingAssets", "ServiceError")
          /\ Return(Err("Realm.HostingAssets"))
          /\ UNCHANGED appAssets
       \/ \E assets \in [Files -> 0..2] :
            /\ Call("Realm.HostingAssets", "ok")
            /\ appAssets' = assets
            /\ Continue("HostingDiffs")
    /\ UNCHANGED <<inputs, rootDir, diffs, printed, uploadPath, facets,
                   hosting, cacheOK, cache, rehashed>>
    /\ UNCHANGED <<deleteVars, cliVars>>

\* ---- hosting.Diffs: the Hosting Diff Algorithm and its asset cache ----
\* the files hosting.Diffs has to hash: those without a valid cache entry,
\* and every file when the cache store cannot be used
FilesToHash(local, usable, entries) ==
    IF usable THEN local \ entries ELSE local

\* the entry of one file: added, removed, modified (content), or none
HostingEntry(f, local, assets) ==
    IF f \in local /\ assets[f] = 0 THEN <<[op |-> "added", path |-> f]>>
    ELSE IF f \notin local /\ assets[f] # 0 THEN <<[op |-> "removed", path |-> f]>>
    ELSE IF f \in local /\ assets[f] = 2 THEN <<[op |-> "modified", path |-> f]>>
    ELSE <<>>

RECURSIVE HostingEntries(_, _, _)
HostingEntries(n, local, assets) ==
    IF n = 0 THEN <<>>
    ELSE HostingEntries(n - 1, local, assets) \o HostingEntry(n, local, assets)

\* hosting.Diffs giving up with a CacheError when the store cannot be used
HostingDiffsCacheFatal(local, assets, usable, entries) ==
    LET hashed == FilesToHash(local, usable, entries)
        okay == [err |-> "ok", hashed |-> hashed,
                 diffs |-> HostingEntries(NumFiles, local, assets)]
        failed == [err |-> "IOError", hashed |-> hashed, diffs |-> <<>>]
    IN IF ~usable THEN {[err |-> "CacheError", hashed |-> {}, diffs |-> <<>>]}
       ELSE IF hashed = {} THEN {okay} ELSE {okay, failed}

\* what hosting.Diffs can return: the entries, or an IOError when a file it
\* has to hash cannot be read; an unusable cache store is not an error
HostingDiffsOutcomes(local, assets, usable, entries) ==
    LET hashed == FilesToHash(local, usable, entries)
        okay == [err |-> "ok", hashed |-> hashed,
                 diffs |-> HostingEntries(NumFiles, local, assets)]
        failed == [err |-> "IOError", hashed |-> hashed, diffs |-> <<>>]
    IN IF hashed = {} THEN {okay} ELSE {okay, failed}

\* HostingDiffs.Strings(): one line per entry
HostingStrings(entries) == [i \in 1..Len(entries) |-> <<entries[i].op, entries[i].path>>]

\* hostingDiffs, err := hosting.Diffs(profile.HostingAssetCachePath(), ...);
\* diffs = append(diffs, hostingDiffs.Strings()...)
HostingDiffs ==
    /\ pc = "HostingDiffs"
    /\ \E o \in HostingDiffsOutcomes(hosting, appAssets, cacheOK, cache) :
        /\ Call("hosting.Diffs", o.err)
        /\ rehashed' = o.hashed
        /\ IF o.err # "ok"
           THEN /\ Return(Err("hosting.Diffs"))
                /\ UNCHANGED <<diffs, facets, cache>>
           ELSE /\ diffs' = AppendDiffs(diffs, HostingStrings(o.diffs))
                /\ facets' = [facets EXCEPT !.hosting = HostingStrings(o.diffs)]
                /\ cache' = IF cacheOK THEN cache \cup o.hashed ELSE cache
                /\ Continue("Print")
    /\ UNCHANGED <<inputs, rootDir, printed, uploadPath, hosting, appAssets,
                   cacheOK>>
    /\ UNCHANGED <<deleteVars, cliVars>>

\* the emptiness test off by one
NoDiffsOffByOne(d) == Len(d) <= 1

\* len(diffs) == 0
NoDiffs(d) == Len(d) = 0

\* strings.Join(lines, "\n")
RECURSIVE Join(_)
Join(lines) ==
    IF Len(lines) = 0 THEN <<>>
    ELSE IF Len(lines) = 1 THEN <<lines[1]>>
    ELSE <<lines[1], "\n">> \o Join(Tail(lines))

IdenticalLog == [message |-> "Deployed app is identical to proposed version"]
ChangesLog(d) ==
    [message |-> "The following reflects the proposed changes to your Realm app",
     body |-> Join(d)]

\* the report and the final return nil
PrintReport ==
    /\ pc = "Print"
    /\ printed' = Append(printed, IF NoDiffs(diffs) THEN IdenticalLog
                                  ELSE ChangesLog(diffs))
    /\ Return(Nil)
    /\ UNCHANGED <<inputs, rootDir, diffs, calls, uploadPath, facets, hosting,
                   appAssets, cacheOK, cache, rehashed>>
    /\ UNCHANGED <<deleteVars, cliVars>>

NoCmd == [built |-> FALSE, PreRunE |-> FALSE, PostRunE |-> FALSE,
          flags |-> FALSE, display |-> ""]

DeleteIdle ==
    /\ dpc = "idle" /\ selected = <<>> /\ outputs = <<>> /\ deleteCalls = <<>>
    /\ di = 0
    /\ dprinted = <<>> /\ dret = Running

CliIdle ==
    /\ cpc = "idle"
    /\ command = [Preparer |-> FALSE, Responder |-> FALSE, Flagger |-> FALSE,
                  Display |-> "", Use |-> ""]
    /\ cmd = NoCmd
    /\ phases = <<>> /\ events = <<>> /\ execErr = Running
    /\ factory = [ui |-> FALSE, telemetryMode |-> "", profileTelemetryMode |-> "on",
                  telemetryService |-> "none"]
    /\ out = <<>>

InitDiff == DiffInit /\ DeleteIdle /\ CliIdle

NextDiff ==
    \/ LoadApp
    \/ CheckRootDir
    \/ ResolveApp
    \/ Diff
    \/ PrepareDependencies
    \/ DiffDependencies
    \/ FindAppHosting
    \/ HostingAssets
    \/ HostingDiffs
    \/ PrintReport

SpecDiff == InitDiff /\ [][NextDiff]_vars

\* ------------------------------------------------------ app diff: claims
Called(name) == \E i \in 1..Len(calls) : calls[i][1] = name
Succeeded(name) == \E i \in 1..Len(calls) : calls[i] = <<name, "ok">>
SomeCallFailed == \E i \in 1..Len(calls) : calls[i][2] # "ok"
AllEntries == facets.config \o facets.deps \o facets.hosting
Split(body) == SelectSeq(body, LAMBDA x : x # "\n")
PrintedChanges ==
    /\ printed # <<>>
    /\ printed[1].message = "The following reflects the proposed changes to your Realm app"

\* C1: the lines handed to the UI are the configuration entries, then the
\* dependency entries, then the hosting entries, each facet in its own order,
\* none dropped and none de-duplicated; a facet not requested adds nothing.
C1_FacetOrder ==
    /\ diffs = AllEntries
    /\ ~inputs.IncludeDependencies => facets.deps = <<>>
    /\ ~inputs.IncludeHosting => facets.hosting = <<>>
    /\ PrintedChanges =>
         LET lines == Split(printed[1].body)
             nc == Len(facets.config)
             nd == Len(facets.deps)
             nh == Len(facets.hosting)
         IN /\ Len(lines) = nc + nd + nh
            /\ \A i \in 1..nc : lines[i] = facets.config[i]
            /\ \A i \in 1..nd : lines[nc + i] = facets.deps[i]
            /\ \A i \in 1..nh : lines[nc + nd + i] = facets.hosting[i]

\* a report with entries of all three facets, one line in two facets
C1_Witness ==
    /\ pc = "done" /\ PrintedChanges
    /\ facets.config = <<<<"removed", 1>>, <<"added", 1>>>>
    /\ facets.deps = <<<<"removed", 1>>>>
    /\ facets.hosting = <<<<"added", 1>>, <<"modified", 2>>>>

\* C2: without IncludeDependencies neither PrepareDependencies nor
\* DiffDependencies is called; without IncludeHosting neither FindAppHosting,
\* HostingAssets nor hosting.Diffs is called and no file is hashed; Realm.Diff
\* is called in every run that got past loading and resolving the app.
C2_FacetIndependence ==
    /\ ~inputs.IncludeDependencies =>
         /\ ~Called("local.PrepareDependencies")
         /\ ~Called("Realm.DiffDependencies")
    /\ ~inputs.IncludeHosting =>
         /\ ~Called("local.FindAppHosting")
         /\ ~Called("Realm.HostingAssets")
         /\ ~Called("hosting.Diffs")
         /\ rehashed = {}
    /\ (Succeeded("cli.ResolveApp") /\ pc # "Diff") => Called("Realm.Diff")

\* a finished configuration-only run
C2_Witness ==
    /\ pc = "done" /\ ret = Nil
    /\ ~inputs.IncludeDependencies /\ ~inputs.IncludeHosting
    /\ calls = <<<<"local.LoadApp", "ok">>, <<"cli.ResolveApp", "ok">>,
                 <<"Realm.Diff", "ok">>>>

\* C3: a failing step ends the handler with that step's error and nothing
\* printed; the handler prints at most once, and only after the configuration
\* diff and every requested facet succeeded.
C3_NoPartialOutput ==
    /\ Len(printed) <= 1
    /\ \A i \in 1..Len(calls) : calls[i][2] # "ok" => i = Len(calls)
    /\ SomeCallFailed =>
         /\ pc = "done"
         /\ ret = Err(calls[Len(calls)][1])
         /\ printed = <<>>
    /\ (pc = "done" /\ ~SomeCallFailed /\ rootDir = "") =>
         /\ ret = Err("no app directory found")
         /\ printed = <<>>
    /\ IsErr(ret) => printed = <<>>
    /\ printed # <<>> =>
         /\ pc = "done" /\ ret = Nil
         /\ Succeeded("Realm.Diff")
         /\ inputs.IncludeDependencies => Succeeded("Realm.DiffDependencies")
         /\ inputs.IncludeHosting => Succeeded("hosting.Diffs")

\* the hosting diff fails after the two earlier facets produced entries
C3_Witness ==
    /\ pc = "done" /\ ret = Err("hosting.Diffs")
    /\ facets.config # <<>> /\ facets.deps # <<>>
    /\ printed = <<>>

\* C4: a successful run prints the "identical" message exactly when the
\* entries of all requested facets together are empty, and otherwise the
\* "proposed changes" report holding every entry; never both.
C4_IdenticalIffEmpty ==
    /\ ret = Nil => Len(printed) = 1
    /\ printed # <<>> =>
         /\ (printed[1] = IdenticalLog) <=> (AllEntries = <<>>)
         /\ AllEntries # <<>> => printed[1] = ChangesLog(AllEntries)
         /\ Len(printed) = 1

\* all three facets ran and found nothing
C4_Witness ==
    /\ pc = "done" /\ ret = Nil
    /\ inputs.IncludeDependencies /\ inputs.IncludeHosting
    /\ hosting # {}
    /\ printed = <<IdenticalLog>>

\* C5: an unusable cache store is not an error of hosting.Diffs: every local
\* file is hashed, and unless a collaborator fails for another reason the
\* handler prints its report and returns nil.
C5_CacheFailureNotFatal ==
    (~cacheOK /\ Called("hosting.Diffs")) =>
        /\ \A i \in 1..Len(calls) : calls[i][2] # "CacheError"
        /\ rehashed = hosting
        /\ ~SomeCallFailed => (pc = "done" => ret = Nil /\ Len(printed) = 1)

\* the store is unusable, entries for the local files exist, the report is
\* printed
C5_Witness ==
    /\ pc = "done" /\ ~cacheOK /\ Succeeded("hosting.Diffs")
    /\ hosting = Files /\ cache = Files /\ rehashed = Files
    /\ ret = Nil /\ Len(printed) = 1

\* C9: once PrepareDependencies succeeded, the archive exists until the
\* handler returns and is removed, by exactly one os.Remove, when it returns,
\* whatever it returns; without a prepared archive nothing is removed.
C9_ArchiveRemovedAtReturn ==
    /\ (uploadPath # NoPath) <=> Succeeded("local.PrepareDependencies")
    /\ (uploadPath # NoPath /\ pc = "done") =>
          /\ uploadPath \notin fs
          /\ removed = <<uploadPath>>
    /\ (uploadPath # NoPath /\ pc # "done") =>
          /\ uploadPath \in fs
          /\ removed = <<>>
    /\ uploadPath = NoPath => removed = <<>>

\* the archive was prepared and a later hosting step failed
C9_Witness ==
    /\ pc = "done" /\ uploadPath # NoPath
    /\ ret = Err("Realm.HostingAssets")
    /\ removed = <<uploadPath>> /\ fs = {}

\* ---------------------------------------------------------- secrets delete
Secrets == 1..MaxSecrets

\* the selections resolveSecrets can return: distinct secrets, in any order
Selections ==
    {s \in SeqsUpTo(Secrets, MaxSecrets) :
        \A i, j \in 1..Len(s) : i # j => s[i] # s[j]}

DeleteInit ==
    /\ dpc = "ResolveApp" /\ selected = <<>> /\ outputs = <<>> /\ di = 0
    /\ deleteCalls = <<>> /\ dprinted = <<>> /\ dret = Running

DReturn(e) == dret' = e /\ dpc' = "done"

\* app, err := cli.ResolveApp(ui, clients.Realm, cmd.inputs.Filter())
DeleteResolveApp ==
    /\ dpc = "ResolveApp"
    /\ \/ DReturn(Err("cli.ResolveApp"))
       \/ dpc' = "Secrets" /\ UNCHANGED dret
    /\ UNCHANGED <<selected, outputs, di, deleteCalls, dprinted>>
    /\ UNCHANGED <<diffVars, cliVars>>

\* secrets, err := clients.Realm.Secrets(app.GroupID, app.ID)
DeleteSecrets ==
    /\ dpc = "Secrets"
    /\ \/ DReturn(Err("Realm.Secrets"))
       \/ dpc' = "resolveSecrets" /\ UNCHANGED dret
    /\ UNCHANGED <<selected, outputs, di, deleteCalls, dprinted>>
    /\ UNCHANGED <<diffVars, cliVars>>

\* selected, err := cmd.inputs.resolveSecrets(ui, secrets)
DeleteResolveSecrets ==
    /\ dpc = "resolveSecrets"
    /\ \/ DReturn(Err("resolveSecrets")) /\ UNCHANGED selected
       \/ \E s \in Selections :
            /\ selected' = s
            /\ dpc' = "CheckSelected"
            /\ UNCHANGED dret
    /\ UNCHANGED <<outputs, di, deleteCalls, dprinted>>
    /\ UNCHANGED <<diffVars, cliVars>>

NoSecretsLog == [message |-> "No secrets to delete"]
ZeroOutput == [secret |-> 0, err |-> Nil]

\* if len(selected) == 0 { print; return nil };
\* outputs := make(secretOutputs, len(selected))
DeleteCheckSelected ==
    /\ dpc = "CheckSelected"
    /\ IF Len(selected) = 0
       THEN /\ dprinted' = Append(dprinted, NoSecretsLog)
            /\ DReturn(Nil)
            /\ UNCHANGED outputs
       ELSE /\ outputs' = [i \in 1..Len(selected) |-> ZeroOutput]
            /\ dpc' = "Loop"
            /\ UNCHANGED <<dprinted, dret>>
    /\ UNCHANGED <<selected, di, deleteCalls>>
    /\ UNCHANGED <<diffVars, cliVars>>

\* a loop body that gives up at the first failed deletion
DeleteSecretStopAtError ==
    /\ dpc = "Loop"
    /\ di < Len(selected)
    /\ \E err \in {Nil, Err("Realm.DeleteSecret")} :
        /\ deleteCalls' = Append(deleteCalls, selected[di + 1])
        /\ outputs' = [outputs EXCEPT ![di + 1] = [secret |-> selected[di + 1], err |-> err]]
        /\ di' = IF err = Nil THEN di + 1 ELSE Len(selected)
    /\ UNCHANGED <<dpc, selected, dprinted, dret>>
    /\ UNCHANGED <<diffVars, cliVars>>

\* one iteration of: for i, secret := range selected {
\*   err := clients.Realm.DeleteSecret(...); outputs[i] = secretOutput{secret, err} }
DeleteSecret ==
    /\ dpc = "Loop"
    /\ di < Len(selected)
    /\ \E err \in {Nil, Err("Realm.DeleteSecret")} :
        /\ deleteCalls' = Append(deleteCalls, selected[di + 1])
        /\ outputs' = [outputs EXCEPT ![di + 1] = [secret |-> selected[di + 1], err |-> err]]
        /\ di' = di + 1
    /\ UNCHANGED <<dpc, selected, dprinted, dret>>
    /\ UNCHANGED <<diffVars, cliVars>>

\* the less function given to sort.SliceStable
Less(a, b) == a.err # Nil /\ b.err = Nil

\* x put into a sorted sequence, behind everything that is not greater
RECURSIVE InsertStable(_, _)
InsertStable(sorted, x) ==
    IF sorted = <<>> THEN <<x>>
    ELSE IF Less(x, sorted[1]) THEN <<x>> \o sorted
    ELSE <<sorted[1]>> \o InsertStable(Tail(sorted), x)

\* sort.SliceStable(outputs, less)
RECURSIVE SliceStable(_)
SliceStable(s) ==
    IF s = <<>> THEN <<>>
    ELSE InsertStable(SliceStable(SubSeq(s, 1, Len(s) - 1)), s[Len(s)])

\* tableRowDelete, on the row of the secret
tableRowDelete(output) ==
    IF output.err # Nil
    THEN [ID |-> output.secret, Deleted |-> FALSE, Details |-> output.err[2]]
    ELSE [ID |-> output.secret, Deleted |-> TRUE, Details |-> ""]

\* terminal.NewTableLog(fmt.Sprintf("Deleted %d secret(s)", len(outputs)), ...)
DeleteTableLog(outs) ==
    [message |-> "Deleted %d secret(s)",
     n |-> Len(outs),
     rows |-> [i \in 1..Len(outs) |-> tableRowDelete(outs[i])]]

\* after the loop: the stable sort, the table, return nil
DeleteReport ==
    /\ dpc = "Loop"
    /\ di >= Len(selected)
    /\ outputs' = SliceStable(outputs)
    /\ dprinted' = Append(dprinted, DeleteTableLog(outputs'))
    /\ DReturn(Nil)
    /\ UNCHANGED <<selected, di, deleteCalls>>
    /\ UNCHANGED <<diffVars, cliVars>>

InitDelete == DiffIdle /\ DeleteInit /\ CliIdle

NextDelete ==
    \/ DeleteResolveApp
    \/ DeleteSecrets
    \/ DeleteResolveSecrets
    \/ DeleteCheckSelected
    \/ DeleteSecret
    \/ DeleteReport

SpecDelete == InitDelete /\ [][NextDelete]_vars

\* ------------------------------------------------- secrets delete: claims
TablePrinted == dprinted # <<>> /\ dprinted[1].message = "Deleted %d secret(s)"
DeletedRows(rows) == {i \in 1..Len(rows) : rows[i].Deleted}

\* C6: the N of the title "Deleted N secret(s)" is the number of selected
\* secrets whose DeleteSecret call succeeded, the rows whose Deleted is true.
C6_TitleCountsDeleted ==
    TablePrinted => dprinted[1].n = Cardinality(DeletedRows(dprinted[1].rows))

\* C7: DeleteSecret is attempted once for every selected secret, in order,
\* whatever the earlier attempts returned; the table has one row per selected
\* secret and the handler returns nil; with nothing selected DeleteSecret is
\* not called and only "No secrets to delete" is printed.
C7_DeleteEverySelected ==
    /\ IsErr(dret) =>
         /\ dret \in {Err("cli.ResolveApp"), Err("Realm.Secrets"), Err("resolveSecrets")}
         /\ deleteCalls = <<>> /\ dprinted = <<>>
    /\ Len(deleteCalls) <= Len(selected)
    /\ \A i \in 1..Len(deleteCalls) : deleteCalls[i] = selected[i]
    /\ (dpc = "done" /\ dret = Nil /\ Len(selected) = 0) =>
         /\ deleteCalls = <<>>
         /\ dprinted = <<NoSecretsLog>>
    /\ (dpc = "done" /\ dret = Nil /\ Len(selected) > 0) =>
         /\ deleteCalls = selected
         /\ Len(dprinted) = 1 /\ TablePrinted
         /\ Len(dprinted[1].rows) = Len(selected)
         /\ \A k \in 1..Len(selected) :
              Cardinality({i \in 1..Len(dprinted[1].rows) :
                              dprinted[1].rows[i].ID = selected[k]}) = 1
    /\ dpc = "done" => (dret = Nil \/ deleteCalls = <<>>)

\* three secrets selected, the first deletion failed, the later ones ran
C7_Witness ==
    /\ dpc = "done" /\ dret = Nil
    /\ selected = <<2, 1, 3>> /\ deleteCalls = <<2, 1, 3>>
    /\ TablePrinted
    /\ [i \in 1..3 |-> dprinted[1].rows[i].ID] = <<2, 1, 3>>
    /\ [i \in 1..3 |-> dprinted[1].rows[i].Deleted] = <<FALSE, TRUE, TRUE>>

\* ---------------------------------------------------------- command factory
TelemetryModes == {"", "on", "off"}       \* "" is telemetry.ModeNil

CliInit ==
    /\ cpc = "Build"
    /\ command \in [Preparer : BOOLEAN, Responder : BOOLEAN, Flagger : BOOLEAN,
                    Display : {"", "app diff"}, Use : {"diff"}]
    /\ cmd = NoCmd
    /\ phases = <<>> /\ events = <<>> /\ execErr = Running
    /\ factory \in [ui : {FALSE}, telemetryMode : TelemetryModes,
                    profileTelemetryMode : TelemetryModes,
                    telemetryService : {"none"}]
    /\ out = <<>>

\* the error type that keeps Run from printing the usage
SuppressUsage(e) == <<"suppressUsageError", e>>
IsSuppressUsage(e) == e[1] = "suppressUsageError"

\* display := command.Display; if display == "" { display = command.Use }
DisplayOf(c) == IF c.Display = "" THEN c.Use ELSE c.Display

\* configureTelemetry: the mode the service is created with
ServiceMode(f) ==
    IF f.telemetryMode = "" THEN f.profileTelemetryMode ELSE f.telemetryMode

\* Build: telemetry configured, the cobra.Command assembled, the optional
\* hooks set by the type assertions
Build ==
    /\ cpc = "Build"
    /\ LET mode == ServiceMode(factory)
       IN \/ /\ mode # factory.profileTelemetryMode
             /\ factory' = [factory EXCEPT !.profileTelemetryMode = mode]
             /\ out' = Append(out, "fatal")        \* profile.Save() failed
             /\ cpc' = "exited"
             /\ UNCHANGED cmd
          \/ /\ factory' = [factory EXCEPT !.profileTelemetryMode = mode,
                                           !.telemetryService = mode]
             /\ cmd' = [built |-> TRUE,
                        PreRunE |-> command.Preparer,
                        PostRunE |-> command.Responder,
                        flags |-> command.Flagger,
                        display |-> DisplayOf(command)]
             /\ cpc' = "Execute"
             /\ UNCHANGED out
    /\ UNCHANGED <<command, phases, events, execErr>>
    /\ UNCHANGED <<diffVars, deleteVars>>

\* cmd.Execute(): cobra parses the arguments first; a bad flag ends it
\* before any hook runs
Execute ==
    /\ cpc = "Execute"
    /\ \/ execErr' = Err("unknown flag") /\ cpc' = "Run"
       \/ cpc' = "PersistentPreRun" /\ UNCHANGED execErr
    /\ UNCHANGED <<command, cmd, phases, events, factory, out>>
    /\ UNCHANGED <<diffVars, deleteVars>>

\* cmd.PersistentPreRun: factory.ensureUI()
PersistentPreRun ==
    /\ cpc = "PersistentPreRun"
    /\ factory' = [factory EXCEPT !.ui = TRUE]
    /\ cpc' = "PreRunE"
    /\ UNCHANGED <<command, cmd, phases, events, execErr, out>>
    /\ UNCHANGED <<diffVars, deleteVars>>

\* a PreRunE that drops the error of Setup
PreRunESwallow(display, err) == Nil

\* what the PreRunE closure returns for what Setup returned
PreRunEResult(display, err) ==
    IF err # Nil THEN Err(<<display, "setup failed", err>>) ELSE Nil

\* what the RunE closure returns for what Handler returned
RunEResult(display, err) ==
    IF err # Nil THEN SuppressUsage(Err(<<display, "failed", err>>)) ELSE Nil

\* the telemetry events the RunE closure tracks
RunEEvents(err) ==
    IF err # Nil THEN <<"COMMAND_START", "COMMAND_ERROR">>
    ELSE <<"COMMAND_START", "COMMAND_COMPLETE">>

\* what the PostRunE closure returns for what Feedback returned
PostRunEResult(display, err) ==
    IF err # Nil
    THEN SuppressUsage(Err(<<display, "completed, but displaying results failed", err>>))
    ELSE Nil

\* cobra's PreRunE phase: the hook, when set; its error ends Execute
PreRunE ==
    /\ cpc = "PreRunE"
    /\ IF cmd.PreRunE
       THEN \E err \in {Nil, Err("Setup")} :
              /\ phases' = Append(phases, <<"Setup", err = Nil>>)
              /\ LET r == PreRunEResult(cmd.display, err)
                 IN IF r # Nil THEN execErr' = r /\ cpc' = "Run"
                    ELSE cpc' = "RunE" /\ UNCHANGED execErr
       ELSE cpc' = "RunE" /\ UNCHANGED <<phases, execErr>>
    /\ UNCHANGED <<command, cmd, events, factory, out>>
    /\ UNCHANGED <<diffVars, deleteVars>>

\* cobra's RunE phase: the handler, its error ends Execute
RunE ==
    /\ cpc = "RunE"
    /\ \E err \in {Nil, Err("Handler")} :
        /\ phases' = Append(phases, <<"Handler", err = Nil>>)
        /\ events' = events \o RunEEvents(err)
        /\ LET r == RunEResult(cmd.display, err)
           IN IF r # Nil THEN execErr' = r /\ cpc' = "Run"
              ELSE cpc' = "PostRunE" /\ UNCHANGED execErr
    /\ UNCHANGED <<command, cmd, factory, out>>
    /\ UNCHANGED <<diffVars, deleteVars>>

\* cobra's PostRunE phase: the hook, when set; then Execute returns
PostRunE ==
    /\ cpc = "PostRunE"
    /\ IF cmd.PostRunE
       THEN \E err \in {Nil, Err("Feedback")} :
              /\ phases' = Append(phases, <<"Feedback", err = Nil>>)
              /\ execErr' = PostRunEResult(cmd.display, err)
       ELSE execErr' = Nil /\ UNCHANGED phases
    /\ cpc' = "Run"
    /\ UNCHANGED <<command, cmd, events, factory, out>>
    /\ UNCHANGED <<diffVars, deleteVars>>

\* Run, after cmd.Execute() returned
Run ==
    /\ cpc = "Run"
    /\ IF execErr = Nil
       THEN cpc' = "returned" /\ UNCHANGED out
       ELSE LET usage == IF IsSuppressUsage(execErr) THEN <<>> ELSE <<"usage">>
            IN /\ cpc' = "exited"
               /\ \/ /\ ~factory.ui
                     /\ out' = out \o usage \o <<"fatal">>
                  \/ /\ factory.ui
                     /\ out' = out \o usage \o <<"error log", "exit 1">>
                  \/ /\ factory.ui          \* ui.Print failed
                     /\ out' = out \o usage \o <<"fatal">>
    /\ UNCHANGED <<command, cmd, phases, events, execErr, factory>>
    /\ UNCHANGED <<diffVars, deleteVars>>

InitCli == DiffIdle /\ DeleteIdle /\ CliInit

NextCli ==
    \/ Build
    \/ Execute
    \/ PersistentPreRun
    \/ PreRunE
    \/ RunE
    \/ PostRunE
    \/ Run

SpecCli == InitCli /\ [][NextCli]_vars

\* ------------------------------------------------ command factory: claims
PhaseIndex(name) ==
    IF \E i \in 1..Len(phases) : phases[i][1] = name
    THEN CHOOSE i \in 1..Len(phases) : phases[i][1] = name
    ELSE 0
Ran(name) == PhaseIndex(name) # 0

\* C8: the phases run in the order Setup, Handler, Feedback, each at most
\* once; the Handler is not invoked after a failed Setup, Feedback only after
\* the Handler returned nil; Setup and Feedback are wired exactly for the
\* commands implementing CommandPreparer and CommandResponder.
C8_PhaseOrder ==
    /\ \A i, j \in 1..Len(phases) : phases[i][1] = phases[j][1] => i = j
    /\ cmd.built => /\ cmd.PreRunE = command.Preparer
                    /\ cmd.PostRunE = command.Responder
    /\ Ran("Setup") => command.Preparer /\ PhaseIndex("Setup") = 1
    /\ Ran("Feedback") => command.Responder
    /\ Ran("Handler") =>
         /\ <<"Setup", FALSE>> \notin Range(phases)
         /\ command.Preparer => phases[1] = <<"Setup", TRUE>>
         /\ PhaseIndex("Handler") = IF command.Preparer THEN 2 ELSE 1
    /\ Ran("Feedback") =>
         /\ PhaseIndex("Feedback") = PhaseIndex("Handler") + 1
         /\ phases[PhaseIndex("Handler")] = <<"Handler", TRUE>>

\* all three phases ran, and Feedback failed
C8_Witness ==
    /\ cpc = "exited"
    /\ phases = <<<<"Setup", TRUE>>, <<"Handler", TRUE>>, <<"Feedback", FALSE>>>>
    /\ out = <<"error log", "exit 1">>
====
